---- MODULE Spec2Model ----
(***************************************************************************)
(* Model of the sliding-tile puzzle of src/src/main.tsx: the App           *)
(* component's state (status, imageSrc, size, board, moves, time), its     *)
(* event handlers, the one-second interval callback and the two effects    *)
(* that follow every committed state change.                               *)
(*                                                                         *)
(* A board is a JavaScript array; it is modelled as a sequence whose       *)
(* element i+1 is the array's element i.  null is Null, undefined (and an  *)
(* array hole, which reads as undefined) is Undef.                         *)
(*                                                                         *)
(* A state of the model is a state between two tasks of the event loop.    *)
(* Every handler is one action: its task ends with the render and the      *)
(* commit of its batched updates and with the effects of that commit       *)
(* (Commit).  The updates that React leaves to a later task, the updater   *)
(* the interval callback queues and the setStatus(SOLVED) of the solved    *)
(* check, wait in pendingTime and pendingStatus until that task runs       *)
(* (Render); the effects of the commit of that task wait for a task of     *)
(* their own (Flush).  Handlers and interval callbacks can run before      *)
(* either.  While no update waits on the component (clean) a call of a     *)
(* setter computes its state at once: the interval callback then runs its  *)
(* updater itself, and a handler's call that sets the state it finds       *)
(* starts no render; that call stays in its hook's queue (bailedOut) until *)
(* a render takes it.                                                      *)
(***************************************************************************)
EXTENDS Integers, Sequences, FiniteSets

VARIABLES
    status,     \* GameStatus
    imageSrc,   \* the chosen image, or NoImage
    size,       \* board side
    board,      \* BoardLayout
    moves,      \* move counter
    time,       \* elapsed seconds
    timers,     \* number of live setInterval timers
    pendingStatus,  \* the status the waiting calls of setStatus give, or NoStatus
    pendingTime,    \* the calls of setTime that wait, oldest first
    timeBase,   \* the time the waiting calls of setTime start from
    passive,    \* the status before the commit whose effects wait, or NoStatus
    clean,      \* no update is marked on the component
    bailedOut,  \* a handler's call that started no render is still queued
    boardSizePx,    \* the board's width, in tenths of a pixel
    walk        \* the frame of a shuffleBoard call followed step by step

vars ==
    <<status, imageSrc, size, board, moves, time, timers, pendingStatus,
      pendingTime, timeBase, passive, clean, bailedOut, boardSizePx, walk>>

appVars ==
    <<status, imageSrc, size, board, moves, time, timers, pendingStatus,
      pendingTime, timeBase, passive, clean, bailedOut, boardSizePx>>

(***************************************************************************)
(* Bounds of the model.                                                    *)
(***************************************************************************)
\* handleTileClick is not taken once moves has reached MaxMoves.
MaxMoves == 2
\* The interval callback is not taken while MaxQueuedTicks of its updaters
\* wait for a render.
MaxQueuedTicks == 1
\* Math.random() is drawn from {0/RandDen, ..., (RandDen-1)/RandDen}.
RandDen == 4
\* The random numbers of one walk repeat with this period.
StreamPeriod == 2
\* The handlers draw the random stream of a walk from those numbered
\* 0..NumSeeds-1.
NumSeeds == 3
\* shuffleBoard is followed through at most this many attempts.
MaxAttempts == 2
\* A click index is drawn from MaxOut slots before the board to MaxOut
\* slots after it.
MaxOut == 3

\* isSolved is applied to every array of at most MaxLen slots.
MaxLen == 4

(***************************************************************************)
(* Types.                                                                  *)
(***************************************************************************)
\* enum Direction
UP == "UP"
DOWN == "DOWN"
LEFT == "LEFT"
RIGHT == "RIGHT"

\* enum GameStatus
SELECTING == "SELECTING"
PLAYING == "PLAYING"
SOLVED == "SOLVED"
TIME_UP == "TIME_UP"

\* No call of setStatus waits; no effect waits.
NoStatus == "none"

\* TileValue: a tile number, null, or what reading a missing slot gives.
Null == 0
Undef == -1

\* imageSrc: null, or the data URL the selector hands over.
NoImage == "null"
Images == {"data:image"}

\* The <option> values of the level selector.
Levels == {3, 4, 5}

\* The values of window.innerWidth.
Widths == {500, 1000}

\* Math.min(600, screenWidth * 0.9), in tenths of a pixel: screenWidth * 0.9
\* is 9 * screenWidth tenths, whole pixels or not, and 600 is 6000 tenths.
BoardSizeFor(screenWidth) ==
    IF 9 * screenWidth < 6000 THEN 9 * screenWidth ELSE 6000


Abs(x) == IF x < 0 THEN -x ELSE x

\* JavaScript's a % b for b > 0: the result has the sign of a.
JsRem(a, b) == IF a >= 0 THEN a % b ELSE -((-a) % b)

\* Math.floor(a / b) for b > 0.
FloorDiv(a, b) == a \div b

\* JavaScript's arr[i]: undefined outside 0..length-1.
At(arr, i) == IF i >= 0 /\ i < Len(arr) THEN arr[i + 1] ELSE Undef

\* JavaScript's arr[i] = v on a copy: an index at or past the length grows
\* the array, the slots in between reading undefined; a negative index
\* names a property, not a slot, and leaves every slot alone.
Put(arr, i, v) ==
    IF i < 0 THEN arr
    ELSE IF i < Len(arr) THEN [arr EXCEPT ![i + 1] = v]
    ELSE arr \o [k \in 1..(i - Len(arr)) |-> Undef] \o <<v>>

\* Swap with the second write reading the slot the first has overwritten:
\* arr[i] = arr[j]; arr[j] = arr[i].
SwapSequential(arr, i, j) ==
    Put(Put(arr, i, At(arr, j)), j, At(Put(arr, i, At(arr, j)), i))

\* [arr[i], arr[j]] = [arr[j], arr[i]]: both reads, then the two writes.
Swap(arr, i, j) ==
    LET vi == At(arr, i)
        vj == At(arr, j)
    IN Put(Put(arr, i, vj), j, vi)

\* arr.indexOf(null)
IndexOfNull(arr) ==
    LET hits == {k \in 1..Len(arr) : arr[k] = Null}
    IN IF hits = {} THEN -1
       ELSE (CHOOSE k \in hits : \A j \in hits : k <= j) - 1

\* Array.from({length: n}, (_, i) => i + 1) with the last slot set to null.
SolvedBoard(n) == [k \in 1..n |-> IF k = n THEN Null ELSE k]

timeLimit(s) == s * s * 10

\* isSolved without the test of the last slot.
isSolvedNoLast(currentBoard) ==
    \A i \in 0..(Len(currentBoard) - 2) : At(currentBoard, i) = i + 1

isSolved(currentBoard) ==
    /\ \A i \in 0..(Len(currentBoard) - 2) : At(currentBoard, i) = i + 1
    /\ At(currentBoard, Len(currentBoard) - 1) = Null

(***************************************************************************)
(* shuffleBoard.  The k-th call of Math.random() within one walk of the    *)
(* stream numbered seed returns RandAt(seed, k) / RandDen.                 *)
(***************************************************************************)
RECURSIVE Pow(_, _)
Pow(b, e) == IF e = 0 THEN 1 ELSE b * Pow(b, e - 1)

\* Every stream of the period, and the streams the handlers draw from.
AllSeeds == 0..(Pow(RandDen, StreamPeriod) - 1)
Seeds == {seed \in AllSeeds : seed < NumSeeds}

RandAt(seed, k) ==
    (seed \div Pow(RandDen, (StreamPeriod - 1) - (k % StreamPeriod))) % RandDen

\* PossibleMoves with the right edge tested as x < s.
PossibleMovesOffByOne(s, x, y) ==
    (IF y > 0 THEN <<DOWN>> ELSE <<>>)
    \o (IF y < s - 1 THEN <<UP>> ELSE <<>>)
    \o (IF x > 0 THEN <<RIGHT>> ELSE <<>>)
    \o (IF x < s THEN <<LEFT>> ELSE <<>>)

\* The directions pushed for a blank at (x, y), in the order of the pushes.
PossibleMoves(s, x, y) ==
    (IF y > 0 THEN <<DOWN>> ELSE <<>>)
    \o (IF y < s - 1 THEN <<UP>> ELSE <<>>)
    \o (IF x > 0 THEN <<RIGHT>> ELSE <<>>)
    \o (IF x < s - 1 THEN <<LEFT>> ELSE <<>>)

\* possibleMoves[Math.floor(Math.random() * possibleMoves.length)]
RandomMove(possibleMoves, r) ==
    possibleMoves[((r * Len(possibleMoves)) \div RandDen) + 1]

TargetIndex(s, blankIndex, randomMove) ==
    CASE randomMove = UP -> blankIndex + s
      [] randomMove = DOWN -> blankIndex - s
      [] randomMove = LEFT -> blankIndex + 1
      [] randomMove = RIGHT -> blankIndex - 1

\* The target of one iteration of the loop.
WalkTarget(s, blankIndex, r) ==
    LET x == JsRem(blankIndex, s)
        y == FloorDiv(blankIndex, s)
    IN TargetIndex(s, blankIndex, RandomMove(PossibleMoves(s, x, y), r))

\* One iteration of the loop on the frame w = [newBoard, blankIndex].
WalkStep(s, w, r) ==
    LET targetIndex == WalkTarget(s, w.blankIndex, r)
    IN [newBoard |-> Swap(w.newBoard, w.blankIndex, targetIndex),
        blankIndex |-> targetIndex]

\* WalkLength with one iteration more.
WalkLengthOdd(s) == s * s * 10 + 1

\* The frame before the loop.
WalkStart(s) == [newBoard |-> SolvedBoard(s * s), blankIndex |-> s * s - 1]

\* Number of iterations of the loop.
WalkLength(s) == s * s * 10

\* The frame after iterations i .. i+n-1 of the loop, from the frame w before
\* iteration i.  The iterations are run in two halves, and the frame between
\* the halves is bound as a value, which keeps the evaluation shallow.
RECURSIVE WalkFrom(_, _, _, _, _)
WalkFrom(s, w, seed, i, n) ==
    IF n = 0 THEN w
    ELSE IF n = 1 THEN WalkStep(s, w, RandAt(seed, i))
    ELSE CHOOSE end \in
            {WalkFrom(s, mid, seed, i + (n \div 2), n - (n \div 2)) :
                mid \in {WalkFrom(s, w, seed, i, n \div 2)}} : TRUE

\* The board one run of the loop leaves, per size and random stream.
WalkBoard ==
    [s \in Levels |-> [seed \in AllSeeds |->
        WalkFrom(s, WalkStart(s), seed, 0, WalkLength(s)).newBoard]]

\* KeepWalk without the solved check.
KeepWalkAlways(newBoard) == TRUE

\* Whether a finished walk is handed back or the generation is redone.
KeepWalk(newBoard) == ~isSolved(newBoard)

\* shuffleBoard(s) when the attempts draw the streams seeds[1], seeds[2], ...
\* <<>> stands for a call whose attempts are not over after Len(seeds) walks.
RECURSIVE shuffleFrom(_, _, _)
shuffleFrom(s, seeds, k) ==
    IF k > Len(seeds) THEN <<>>
    ELSE IF KeepWalk(WalkBoard[s][seeds[k]]) THEN WalkBoard[s][seeds[k]]
         ELSE shuffleFrom(s, seeds, k + 1)

shuffleBoard(s, seeds) == shuffleFrom(s, seeds, 1)

SeedSeqs == UNION {[1..n -> Seeds] : n \in 1..MaxAttempts}

\* Every board shuffleBoard(s) can return.
ShuffleOutcomes ==
    [s \in Levels |-> {shuffleBoard(s, sq) : sq \in SeedSeqs} \ {<<>>}]

(***************************************************************************)
(* The effects, run after every commit whose dependencies changed.         *)
(***************************************************************************)
\* useEffect(..., [status, timeLimit]): when a dependency changed, the
\* cleanup of the previous run clears the timer that run started (if it is
\* still live) and the new run starts one while PLAYING.  live is the number
\* of live timers before the effect.
TimerEffect(oldSt, oldLimit, newSt, newLimit, live) ==
    IF oldSt = newSt /\ oldLimit = newLimit THEN live
    ELSE (IF oldSt = PLAYING /\ live > 0 THEN live - 1 ELSE live)
         + (IF newSt = PLAYING THEN 1 ELSE 0)

\* useEffect(..., [board, status]): whether the effect, run on the committed
\* status st and board b, calls setStatus(SOLVED).
SolvedEffect(st, b) == st = PLAYING /\ isSolved(b)

(***************************************************************************)
(* The queue of the time hook.  An entry is a call of setTime that no      *)
(* render has processed yet: the updater the interval callback passes,     *)
(* with the timeLimit its closure holds and whether the timer it clears    *)
(* is the live one; the state an updater gave when the callback ran it at  *)
(* once; or the value a handler passes.                                    *)
(***************************************************************************)
Updater(limit) == [kind |-> "updater", arg |-> limit, own |-> TRUE]

Eager(t) == [kind |-> "eager", arg |-> t, own |-> FALSE]

Value(v) == [kind |-> "value", arg |-> v, own |-> FALSE]

\* The queue once the cleanup of the timer effect has cleared the timer.
Disown(q) == [i \in 1..Len(q) |-> [q[i] EXCEPT !.own = FALSE]]

\* The number of calls of the interval callback waiting in the queue.
QueuedTicks(q) == Cardinality({i \in 1..Len(q) : q[i].kind # "value"})

\* The queue after a handler's setTime(v): a queue that is empty stays so
\* (the render of the handler's task processes the value); behind an entry
\* that render skips the value waits for the later render too, and of two
\* values in a row the later one decides.
QueueValue(q, v) ==
    IF q = <<>> THEN q
    ELSE IF q[Len(q)].kind = "value" THEN [q EXCEPT ![Len(q)] = Value(v)]
    ELSE Append(q, Value(v))

\* t => { ... }: the time the updater returns, and whether it took the
\* branch that calls setStatus(TIME_UP) and clearInterval(timer).
TickUpdater(t, limit) ==
    IF t + 1 >= limit
    THEN [time |-> limit, fired |-> TRUE]
    ELSE [time |-> t + 1, fired |-> FALSE]

\* The render that processes the whole queue q, in order, from r: the time
\* reached, whether an updater set TIME_UP, and whether one cleared the
\* live timer.  An updater that has run already is not run again.
RECURSIVE RunTimeQueue(_, _)
RunTimeQueue(q, r) ==
    IF q = <<>> THEN r
    ELSE LET u == Head(q)
             t == TickUpdater(r.time, u.arg)
         IN RunTimeQueue(Tail(q),
               IF u.kind # "updater"
               THEN [r EXCEPT !.time = u.arg]
               ELSE [time |-> t.time,
                     fired |-> r.fired \/ t.fired,
                     cleared |-> r.cleared \/ (t.fired /\ u.own)])

(***************************************************************************)
(* The component.                                                          *)
(***************************************************************************)
\* The component's state as a record.
Cur ==
    [status |-> status, imageSrc |-> imageSrc, size |-> size, board |-> board,
     moves |-> moves, time |-> time, timers |-> timers,
     pendingStatus |-> pendingStatus, pendingTime |-> pendingTime,
     timeBase |-> timeBase, passive |-> passive, clean |-> clean,
     bailedOut |-> bailedOut, boardSizePx |-> boardSizePx]

\* The component's state becomes r.
Becomes(r) ==
    /\ status' = r.status
    /\ imageSrc' = r.imageSrc
    /\ size' = r.size
    /\ board' = r.board
    /\ moves' = r.moves
    /\ time' = r.time
    /\ timers' = r.timers
    /\ pendingStatus' = r.pendingStatus
    /\ pendingTime' = r.pendingTime
    /\ timeBase' = r.timeBase
    /\ passive' = r.passive
    /\ clean' = r.clean
    /\ bailedOut' = r.bailedOut
    /\ boardSizePx' = r.boardSizePx

\* From the state c, the effects that wait since the commit of a render
\* task, which changed the status from c.passive: the cleanup of the timer
\* effect and both effects on the committed state.  They run in a task of
\* their own, or before the next render if that comes first.
Flush(c) ==
    IF c.passive = NoStatus THEN c
    ELSE [c EXCEPT !.timers = TimerEffect(c.passive, timeLimit(c.size),
                                          c.status, timeLimit(c.size), @),
                   !.pendingTime = Disown(@),
                   !.pendingStatus = IF SolvedEffect(c.status, c.board)
                                     THEN SOLVED ELSE @,
                   !.passive = NoStatus]

\* The effects task runs when effects wait for it.
flushEffects ==
    /\ passive # NoStatus
    /\ Becomes(Flush(Cur))
    /\ UNCHANGED walk

\* From the state c, the task of a handler to its end: the effects that
\* still wait, the render and the commit of the handler's batched updates,
\* which skip the updates waiting for the later render, and the effects of
\* that commit.  setsStatus, setsBoard and setsTime tell which setters the
\* handler called.  On a clean component calls that all set the state they
\* find start no render and stay queued.  A render takes the calls that
\* stayed queued; one that changes nothing is not committed and leaves the
\* component clean unless updates still wait.
Commit(c, st, img, sz, b, mv, tm, setsStatus, setsBoard, setsTime) ==
    LET f == Flush(c)
        reran == st # c.status \/ timeLimit(sz) # timeLimit(c.size)
        queue == IF setsTime THEN QueueValue(f.pendingTime, tm)
                 ELSE f.pendingTime
        waits == IF (setsBoard \/ st # c.status) /\ SolvedEffect(st, b)
                 THEN SOLVED
                 ELSE IF setsStatus /\ f.pendingStatus # NoStatus THEN st
                 ELSE f.pendingStatus
        same == /\ st = c.status
                /\ img = c.imageSrc
                /\ sz = c.size
                /\ ~setsBoard
                /\ mv = c.moves
                /\ tm = c.time
    IN IF c.clean /\ same THEN [c EXCEPT !.bailedOut = TRUE]
       ELSE
       [status |-> st,
        imageSrc |-> img,
        size |-> sz,
        board |-> b,
        moves |-> mv,
        time |-> tm,
        timers |-> TimerEffect(c.status, timeLimit(c.size), st, timeLimit(sz),
                               f.timers),
        pendingStatus |-> waits,
        pendingTime |-> IF reran THEN Disown(queue) ELSE queue,
        timeBase |-> IF f.pendingTime = <<>> THEN tm ELSE c.timeBase,
        passive |-> NoStatus,
        clean |-> same /\ waits = NoStatus /\ queue = <<>>,
        bailedOut |-> FALSE,
        boardSizePx |-> c.boardSizePx]

(***************************************************************************)
(* The handlers: the state each leaves, from the state c it is called in,  *)
(* and the action that takes the component there.                          *)
(***************************************************************************)
GameStart(c, img, level, newBoard) ==
    Commit(c, PLAYING, img, level, newBoard, 0, 0, TRUE, TRUE, TRUE)

\* The selector, and with it onGameStart, is rendered while SELECTING only.
handleGameStart(img, level, newBoard) ==
    /\ status = SELECTING
    /\ Becomes(GameStart(Cur, img, level, newBoard))
    /\ UNCHANGED walk

NewGame(c) ==
    Commit(c, SELECTING, NoImage, c.size, c.board, c.moves, c.time,
           TRUE, FALSE, FALSE)

handleNewGame ==
    /\ Becomes(NewGame(Cur))
    /\ UNCHANGED walk

Reset(c, newBoard) ==
    Commit(c, PLAYING, c.imageSrc, c.size, newBoard, 0, 0, TRUE, TRUE, TRUE)

handleReset(newBoard) ==
    /\ Becomes(Reset(Cur, newBoard))
    /\ UNCHANGED walk

\* Solve that counts the forced win as a move.
SolveCountsMove(c) ==
    Commit(c, SOLVED, c.imageSrc, c.size, SolvedBoard(c.size * c.size),
           c.moves + 1, c.time, TRUE, TRUE, FALSE)

Solve(c) ==
    Commit(c, SOLVED, c.imageSrc, c.size, SolvedBoard(c.size * c.size),
           c.moves, c.time, TRUE, TRUE, FALSE)

handleSolve ==
    /\ Becomes(Solve(Cur))
    /\ UNCHANGED walk

\* IsAdjacent tested on the indices: one apart, or one row apart.
IsAdjacentByIndex(sz, tileIndex, blankIndex) ==
    Abs(tileIndex - blankIndex) \in {1, sz}

\* IsAdjacent with the distance tested as <= 1.
IsAdjacentOrSame(sz, tileIndex, blankIndex) ==
    Abs(JsRem(tileIndex, sz) - JsRem(blankIndex, sz))
      + Abs(FloorDiv(tileIndex, sz) - FloorDiv(blankIndex, sz)) <= 1

\* const isAdjacent = ...
IsAdjacent(sz, tileIndex, blankIndex) ==
    LET tileX == JsRem(tileIndex, sz)
        tileY == FloorDiv(tileIndex, sz)
        blankX == JsRem(blankIndex, sz)
        blankY == FloorDiv(blankIndex, sz)
    IN Abs(tileX - blankX) + Abs(tileY - blankY) = 1

\* Whether the body of handleTileClick, past its status check, reaches the
\* swap: the board holds a null and tileIndex is adjacent to it.
MoveAccepted(sz, b, tileIndex) ==
    LET blankIndex == IndexOfNull(b)
    IN /\ blankIndex # -1
       /\ IsAdjacent(sz, tileIndex, blankIndex)

\* The board that body hands to setBoard, or b when it sets none.
applyMove(sz, b, tileIndex) ==
    IF MoveAccepted(sz, b, tileIndex)
    THEN Swap(b, tileIndex, IndexOfNull(b))
    ELSE b

\* ClickMoves without the status check of handleTileClick.
ClickMovesAnyStatus(st, sz, b, tileIndex) == MoveAccepted(sz, b, tileIndex)

\* Whether handleTileClick(tileIndex) sets a board and counts a move.  The
\* status it reads is the committed one.
ClickMoves(st, sz, b, tileIndex) ==
    st = PLAYING /\ MoveAccepted(sz, b, tileIndex)

\* A click that calls no setter starts no render.
TileClick(c, tileIndex) ==
    IF ClickMoves(c.status, c.size, c.board, tileIndex)
    THEN Commit(c, c.status, c.imageSrc, c.size,
                applyMove(c.size, c.board, tileIndex),
                c.moves + 1, c.time, FALSE, TRUE, FALSE)
    ELSE c

handleTileClick(tileIndex) ==
    /\ ClickMoves(status, size, board, tileIndex) => moves < MaxMoves
    /\ Becomes(TileClick(Cur, tileIndex))
    /\ UNCHANGED walk

\* The resize listener: setBoardSizePx with the width computed from
\* screenWidth.  On a clean component an unchanged width starts no render
\* and the call stays queued; otherwise the render comes in the listener's
\* task, after the effects that still wait, it takes the calls that stayed
\* queued, and one that changes nothing leaves the component clean unless
\* updates still wait.
Resize(c, screenWidth) ==
    LET sizePx == BoardSizeFor(screenWidth)
        f == Flush(c)
    IN IF c.clean /\ sizePx = c.boardSizePx THEN [c EXCEPT !.bailedOut = TRUE]
       ELSE [f EXCEPT !.boardSizePx = sizePx,
                      !.bailedOut = FALSE,
                      !.clean = /\ sizePx = c.boardSizePx
                                /\ f.pendingStatus = NoStatus
                                /\ f.pendingTime = <<>>]

handleResize(screenWidth) ==
    /\ Becomes(Resize(Cur, screenWidth))
    /\ UNCHANGED walk

\* The setInterval callback, setTime(updater).  On a clean component the
\* updater runs at once, on the committed time: the branch of the limit
\* clears the timer and its setStatus(TIME_UP) waits for the render task as
\* the state the updater returned does.  Otherwise the updater is queued
\* and runs when the component renders next.
Tick(c) ==
    LET t == TickUpdater(c.time, timeLimit(c.size))
        setsStatus == t.fired /\ c.status # TIME_UP
        setsTime == t.time # c.time
    IN IF c.clean
       THEN [c EXCEPT !.timers = IF t.fired /\ @ > 0 THEN @ - 1 ELSE @,
                      !.pendingStatus = IF setsStatus THEN TIME_UP ELSE @,
                      !.pendingTime = IF setsTime THEN <<Eager(t.time)>>
                                      ELSE @,
                      !.timeBase = c.time,
                      !.clean = ~(setsStatus \/ setsTime)]
       ELSE [c EXCEPT !.pendingTime = Append(@, Updater(timeLimit(c.size)))]

\* The callback needs a live timer.
timerTick ==
    /\ timers > 0
    /\ QueuedTicks(pendingTime) < MaxQueuedTicks
    /\ Becomes(Tick(Cur))
    /\ UNCHANGED walk

\* From the state c, the task React schedules for the updates that wait
\* (the calls of setTime of the interval callback, the setStatus(SOLVED) of
\* the solved check, and the handlers' calls that came behind them): the
\* effects that still wait, the render that processes the updates, and its
\* commit.  The setStatus(TIME_UP) an updater makes during the render is
\* applied after the updates of the queue.  The effects of a commit that
\* changed the status wait for their task; a render that changes nothing
\* is not committed and leaves the component clean.  The render skips a
\* handler's call that stayed queued: React then renders again before the
\* task ends, after the effects of the commit, and that render, which
\* takes the call and changes nothing, leaves the component clean unless
\* the effects have queued an update.
Render(c) ==
    LET f == Flush(c)
        r == RunTimeQueue(f.pendingTime,
                [time |-> f.timeBase, fired |-> FALSE, cleared |-> FALSE])
        st == IF r.fired THEN TIME_UP
              ELSE IF f.pendingStatus # NoStatus THEN f.pendingStatus
              ELSE f.status
        done == [f EXCEPT !.status = st,
                          !.time = r.time,
                          !.timers = IF r.cleared /\ @ > 0 THEN @ - 1 ELSE @,
                          !.pendingStatus = NoStatus,
                          !.pendingTime = <<>>,
                          !.timeBase = r.time,
                          !.passive = IF st # f.status THEN f.status
                                      ELSE NoStatus,
                          !.clean = (st = f.status /\ r.time = f.time)]
        again == Flush(done)
    IN IF c.bailedOut
       THEN [again EXCEPT !.bailedOut = FALSE,
                          !.clean = /\ again.pendingStatus = NoStatus
                                    /\ again.pendingTime = <<>>]
       ELSE done

\* The render task runs when an update waits for it.
renderUpdates ==
    /\ pendingStatus # NoStatus \/ pendingTime # <<>>
    /\ Becomes(Render(Cur))
    /\ UNCHANGED walk

\* The indices a click is drawn from.
ClickIndices(sz) == (-MaxOut)..(sz * sz - 1 + MaxOut)

(***************************************************************************)
(* shuffleBoard followed one loop iteration at a time.  walk.pc is "idle"  *)
(* outside a call, "loop" before iteration walk.i, "done" on return.       *)
(***************************************************************************)
NoWalk == [pc |-> "idle", s |-> 0, seed |-> 0, i |-> 0, newBoard |-> <<>>,
           blankIndex |-> 0]

\* The frame of a walk that starts, with its random stream.
WalkEnter(s, seed) ==
    [pc |-> "loop", s |-> s, seed |-> seed, i |-> 0,
     newBoard |-> WalkStart(s).newBoard, blankIndex |-> WalkStart(s).blankIndex]

shuffleCall(s, seed) ==
    /\ walk.pc # "loop"
    /\ walk' = WalkEnter(s, seed)
    /\ UNCHANGED appVars

shuffleLoop ==
    /\ walk.pc = "loop"
    /\ walk.i < WalkLength(walk.s)
    /\ LET w == WalkStep(walk.s, [newBoard |-> walk.newBoard,
                                  blankIndex |-> walk.blankIndex],
                         RandAt(walk.seed, walk.i))
       IN walk' = [walk EXCEPT !.i = walk.i + 1, !.newBoard = w.newBoard,
                               !.blankIndex = w.blankIndex]
    /\ UNCHANGED appVars

\* return shuffleBoard(s): the generation starts again, on fresh random numbers.
shuffleRetry(seed) ==
    /\ walk.pc = "loop"
    /\ walk.i = WalkLength(walk.s)
    /\ ~KeepWalk(walk.newBoard)
    /\ walk' = WalkEnter(walk.s, seed)
    /\ UNCHANGED appVars

\* return newBoard
shuffleReturn ==
    /\ walk.pc = "loop"
    /\ walk.i = WalkLength(walk.s)
    /\ KeepWalk(walk.newBoard)
    /\ walk' = [walk EXCEPT !.pc = "done"]
    /\ UNCHANGED appVars

\* The values a slot of an array handed to isSolved holds.
SlotValues == {Undef, Null} \cup (1..MaxLen)

\* The arrays handed to isSolved.
Boards == UNION {[1..n -> SlotValues] : n \in 0..MaxLen}

\* A call isSolved(currentBoard), with the value it returns.
isSolvedCall(currentBoard) ==
    /\ walk.pc = "idle"
    /\ walk' = [pc |-> "isSolved", currentBoard |-> currentBoard,
                result |-> isSolved(currentBoard)]
    /\ UNCHANGED appVars

\* The caller has taken the value.
isSolvedReturn ==
    /\ walk.pc = "isSolved"
    /\ walk' = NoWalk
    /\ UNCHANGED appVars

\* useState initial values, with the width the resize effect has set on
\* mounting (which is never the initial 500, so that render was committed);
\* no effect starts a timer while SELECTING and no update waits.
Init ==
    /\ status = SELECTING
    /\ imageSrc = NoImage
    /\ size = 3
    /\ board = <<>>
    /\ moves = 0
    /\ time = 0
    /\ timers = 0
    /\ pendingStatus = NoStatus
    /\ pendingTime = <<>>
    /\ timeBase = 0
    /\ passive = NoStatus
    /\ clean = FALSE
    /\ bailedOut = FALSE
    /\ boardSizePx \in {BoardSizeFor(screenWidth) : screenWidth \in Widths}
    /\ walk = NoWalk

Next ==
    \/ \E img \in Images, level \in Levels :
          \E newBoard \in ShuffleOutcomes[level] :
             handleGameStart(img, level, newBoard)
    \/ handleNewGame
    \/ \E newBoard \in ShuffleOutcomes[size] : handleReset(newBoard)
    \/ handleSolve
    \/ \E tileIndex \in ClickIndices(size) : handleTileClick(tileIndex)
    \/ \E screenWidth \in Widths : handleResize(screenWidth)
    \/ timerTick
    \/ renderUpdates
    \/ flushEffects

Spec == Init /\ [][Next]_vars

\* setInterval keeps calling its callback while its timer is live, and
\* React runs the tasks it has scheduled.
SpecLive ==
    /\ Init /\ [][Next]_vars
    /\ WF_vars(timerTick) /\ WF_vars(renderUpdates) /\ WF_vars(flushEffects)

\* The calls of shuffleBoard alone, for every size and random stream.
NextShuffle ==
    \/ \E s \in Levels, seed \in AllSeeds : shuffleCall(s, seed)
    \/ shuffleLoop
    \/ \E seed \in AllSeeds : shuffleRetry(seed)
    \/ shuffleReturn

SpecShuffle == Init /\ [][NextShuffle]_vars

\* The calls of isSolved alone, on every array of the bound.
NextIsSolved ==
    \/ \E currentBoard \in Boards : isSolvedCall(currentBoard)
    \/ isSolvedReturn

SpecIsSolved == Init /\ [][NextIsSolved]_vars

(***************************************************************************)
(* Vocabulary of the properties, written without the model's operators.   *)
(***************************************************************************)
\* b is a permutation of {1..sz*sz-1, empty}.
IsBoardOf(b, sz) ==
    /\ Len(b) = sz * sz
    /\ \A v \in (1..(sz * sz - 1)) \cup {Null} :
          Cardinality({k \in 1..Len(b) : b[k] = v}) = 1

\* Slots p and q of the row-major sz-wide grid are horizontal or vertical
\* neighbours.
Neighbours(sz, p, q) ==
    \/ q = p - sz
    \/ q = p + sz
    \/ q = p - 1 /\ (p \div sz) = (q \div sz)
    \/ q = p + 1 /\ (p \div sz) = (q \div sz)

\* The layout [1, ..., sz*sz-1, empty].
Goal(sz) == [k \in 1..(sz * sz) |-> IF k < sz * sz THEN k ELSE Null]

\* after is before with the contents of slots p and q exchanged.
Exchanged(before, after, p, q) ==
    /\ Len(after) = Len(before)
    /\ \A k \in 0..(Len(before) - 1) :
          At(after, k) = IF k = p THEN At(before, q)
                         ELSE IF k = q THEN At(before, p)
                         ELSE At(before, k)

(***************************************************************************)
(* C1.  Every board shuffleBoard returns, for sizes 3, 4 and 5, is a       *)
(* permutation of {1..size*size-1, empty} reached from the solved layout   *)
(* by legal slides: the walk starts on the solved layout, and every        *)
(* iteration exchanges the empty slot with a slot of the board that is its *)
(* horizontal or vertical neighbour.                                       *)
(***************************************************************************)
C1_ShuffleByLegalSlides ==
    [][/\ (walk'.pc = "loop" /\ walk'.i = 0) =>
            /\ walk'.newBoard = Goal(walk'.s)
            /\ walk'.blankIndex = walk'.s * walk'.s - 1
       /\ (walk.pc = "loop" /\ walk'.pc = "loop" /\ walk'.i = walk.i + 1) =>
            /\ At(walk.newBoard, walk.blankIndex) = Null
            /\ walk'.blankIndex \in 0..(walk.s * walk.s - 1)
            /\ Neighbours(walk.s, walk.blankIndex, walk'.blankIndex)
            /\ Exchanged(walk.newBoard, walk'.newBoard,
                         walk.blankIndex, walk'.blankIndex)
       /\ walk'.pc = "done" =>
            /\ walk'.i = walk'.s * walk'.s * 10
            /\ IsBoardOf(walk'.newBoard, walk'.s)
      ]_vars

\* A size-5 shuffle has returned a board that is not the solved layout.
C1_Witness ==
    /\ walk.pc = "done"
    /\ walk.s = 5
    /\ walk.i = 250
    /\ walk.newBoard # Goal(5)

(***************************************************************************)
(* C2.  shuffleBoard never returns the solved layout (a walk that ends on  *)
(* it is redone), so every start and every restart enters PLAYING with a   *)
(* board that is not solved: in every state, whatever board shuffleBoard   *)
(* hands over, handleGameStart (while SELECTING) and handleReset leave     *)
(* status PLAYING and a board for which isSolved is false.                 *)
(***************************************************************************)
C2_EntryNotSolved ==
    /\ \A level \in Levels : \A newBoard \in ShuffleOutcomes[level] :
          /\ newBoard # Goal(level)
          /\ status = SELECTING =>
                \A img \in Images :
                   /\ GameStart(Cur, img, level, newBoard).status = PLAYING
                   /\ GameStart(Cur, img, level, newBoard).board # Goal(level)
    /\ \A newBoard \in ShuffleOutcomes[size] :
          LET r == Reset(Cur, newBoard)
          IN /\ r.status = PLAYING
             /\ r.board # Goal(size)

\* A game has just been entered on a board that shuffleBoard returned from
\* its second walk, the first having ended on the solved layout.
C2_Witness ==
    /\ status = PLAYING
    /\ moves = 0
    /\ time = 0
    /\ \E sq \in SeedSeqs :
          /\ Len(sq) = 2
          /\ WalkBoard[size][sq[1]] = Goal(size)
          /\ board = shuffleBoard(size, sq)

(***************************************************************************)
(* C3.  In every state of a session (a board has been generated by start,  *)
(* restart or solve), after any sequence of events, the board holds        *)
(* exactly one empty marker and the tiles 1..size*size-1 exactly once      *)
(* each: it does in the state, and every click, on any index, leaves a     *)
(* board that does.                                                        *)
(***************************************************************************)
C3_BoardIsPermutation ==
    board # <<>> =>
       /\ IsBoardOf(board, size)
       /\ \A t \in ClickIndices(size) :
             IsBoardOf(TileClick(Cur, t).board, size)

(***************************************************************************)
(* C4.  While PLAYING, a click on a slot of the board that is not a        *)
(* neighbour of the empty slot (the empty slot itself included) changes    *)
(* nothing: board, moves, status and time stay as they are.                *)
(***************************************************************************)
C4_NonAdjacentClickNoOp ==
    status = PLAYING =>
       \A t \in 0..(size * size - 1) :
          (\/ IndexOfNull(board) = -1
           \/ ~Neighbours(size, IndexOfNull(board), t)) =>
             LET r == TileClick(Cur, t)
             IN /\ r.board = board
                /\ r.moves = moves
                /\ r.status = status
                /\ r.time = time

\* A game under way, after a move and a tick, whose board has its empty slot
\* and slots that are not its neighbours.
C4_Witness ==
    /\ status = PLAYING
    /\ moves = 1
    /\ time = 1
    /\ IndexOfNull(board) \in 0..(size * size - 1)
    /\ \E t \in 0..(size * size - 1) :
          /\ t # IndexOfNull(board)
          /\ ~Neighbours(size, IndexOfNull(board), t)
          /\ TileClick(Cur, t) = Cur

(***************************************************************************)
(* C5 as claimed.  For every board and every slot t on which a move is     *)
(* accepted, the move on t followed by the move on the same index t gives  *)
(* back the board.                                                         *)
(***************************************************************************)
C5_SameIndexTwiceRestores ==
    \A t \in 0..(size * size - 1) :
       MoveAccepted(size, board, t) =>
          applyMove(size, applyMove(size, board, t), t) = board

(***************************************************************************)
(* C5 as amended.  For every board and every slot t on which a move is     *)
(* accepted, the move on t followed by the move on the slot that was empty *)
(* (where the tile now lies) gives back the board; the move on the same    *)
(* index t, now the empty slot, is rejected and leaves the board of the    *)
(* first move.                                                             *)
(***************************************************************************)
C5_MoveBackRestores ==
    \A t \in 0..(size * size - 1) :
       MoveAccepted(size, board, t) =>
          LET moved == applyMove(size, board, t)
          IN /\ moved # board
             /\ ~MoveAccepted(size, moved, t)
             /\ applyMove(size, moved, t) = moved
             /\ MoveAccepted(size, moved, IndexOfNull(board))
             /\ applyMove(size, moved, IndexOfNull(board)) = board

\* Two clicks have been counted and the board is again the one the game
\* began on: a tile was moved and moved back.
C5_Witness ==
    /\ status = PLAYING
    /\ moves = 2
    /\ board \in ShuffleOutcomes[size]

(***************************************************************************)
(* C6.  A session enters PLAYING with time 0 and is PLAYING until its      *)
(* ticks have brought time to the limit size*size*10: start and restart    *)
(* leave time 0, and the render of the updates that waited when they ran   *)
(* leaves the status PLAYING and time 0 (no tick of the session has come   *)
(* yet); a click leaves time as it is; and for an unsolved game in which   *)
(* no update waits, a tick (the interval callback and the render of its    *)
(* updater) that leaves time below the limit leaves status PLAYING and     *)
(* adds 1 to time, and the tick that brings time to the limit sets TIME_UP *)
(* with time equal to the limit.                                           *)
(***************************************************************************)
C6_TimeUpOnLimitTick ==
    /\ status = SELECTING =>
          \A img \in Images, level \in Levels :
             \A newBoard \in ShuffleOutcomes[level] :
                LET r == GameStart(Cur, img, level, newBoard)
                IN /\ r.time = 0
                   /\ Render(r).status = PLAYING
                   /\ Render(r).time = 0
    /\ \A newBoard \in ShuffleOutcomes[size] :
          LET r == Reset(Cur, newBoard)
          IN /\ r.time = 0
             /\ Render(r).status = PLAYING
             /\ Render(r).time = 0
    /\ \A t \in ClickIndices(size) : TileClick(Cur, t).time = time
    /\ (status = PLAYING /\ ~isSolved(board)
          /\ pendingTime = <<>> /\ pendingStatus = NoStatus) =>
          LET r == Render(Tick(Cur))
          IN /\ timers > 0
             /\ time < size * size * 10
             /\ time + 1 < size * size * 10 =>
                   /\ r.status = PLAYING
                   /\ r.time = time + 1
             /\ time + 1 = size * size * 10 =>
                   /\ r.status = TIME_UP
                   /\ r.time = size * size * 10

(***************************************************************************)
(* C7.  In every state, 0 <= time <= size*size*10 for the current size,    *)
(* and time = size*size*10 whenever status is TIME_UP.                     *)
(***************************************************************************)
C7_ElapsedWithinLimit ==
    /\ 0 <= time
    /\ time <= size * size * 10
    /\ status = TIME_UP => time = size * size * 10

(***************************************************************************)
(* C8.  handleSolve, in any state, sets the board to the solved layout of  *)
(* the current size and status to SOLVED, and leaves moves, time, size and *)
(* the image as they are.                                                  *)
(***************************************************************************)
C8_SolveSetsSolved ==
    /\ Solve(Cur).board = Goal(size)
    /\ Solve(Cur).status = SOLVED
    /\ Solve(Cur).moves = moves
    /\ Solve(Cur).time = time
    /\ Solve(Cur).size = size
    /\ Solve(Cur).imageSrc = imageSrc

\* A size-4 game was solved by handleSolve after one move (no single move
\* solves a shuffled board): board [1..15, empty], the move still counted.
C8_Witness ==
    /\ status = SOLVED
    /\ size = 4
    /\ moves = 1
    /\ time > 0
    /\ board = Goal(4)

(***************************************************************************)
(* C9.  Once status is SOLVED or TIME_UP, a click, the render of the       *)
(* updates that wait, and an interval callback, if one can still run,     *)
(* with the render that follows it, leave status as it is: a game that is  *)
(* SOLVED never becomes TIME_UP, and a game that is TIME_UP stays so,      *)
(* without restart or newGame.                                             *)
(***************************************************************************)
C9_TerminalUntilReset ==
    status \in {SOLVED, TIME_UP} =>
       /\ \A t \in ClickIndices(size) : TileClick(Cur, t).status = status
       /\ Render(Cur).status = status
       /\ ENABLED timerTick => Render(Tick(Cur)).status = status

(***************************************************************************)
(* C10.  A click whose index lies outside 0..size*size-1 is a no-op for    *)
(* every board: board and moves stay as they are.                          *)
(***************************************************************************)
C10_OutOfRangeClickNoOp ==
    \A t \in ClickIndices(size) \ (0..(size * size - 1)) :
       /\ TileClick(Cur, t).board = board
       /\ TileClick(Cur, t).moves = moves

C12_SolvedBeforeLaterEvents ==
    status = PLAYING =>
       \A t \in ClickIndices(size) :
          LET r == TileClick(Cur, t)
          IN (r.board # board /\ r.board = Goal(size)) =>
                /\ r.moves = moves + 1
                /\ pendingTime = <<>> =>
                      /\ Render(r).status = SOLVED
                      /\ Render(r).time = time
                      /\ Flush(Render(r)).timers = 0
                      /\ Render(Tick(r)).status = SOLVED
                      /\ Render(Tick(Render(r))).status = SOLVED
                /\ \A t2 \in ClickIndices(size) :
                      TileClick(r, t2).moves = r.moves

(***************************************************************************)
(* C13.  A timer is live exactly while status is PLAYING, and never more   *)
(* than one: every entry into PLAYING starts it and every exit (SOLVED,    *)
(* TIME_UP, SELECTING) clears it, so no interval callback runs while       *)
(* status is not PLAYING; and nothing a tick has queued changes time or    *)
(* status once status is not PLAYING.                                      *)
(***************************************************************************)
C13_TimerExactlyWhilePlaying ==
    /\ timers \in {0, 1}
    /\ timers = 1 <=> status = PLAYING
    /\ status # PLAYING =>
          /\ ~ENABLED timerTick
          /\ Render(Cur).time = time
          /\ Render(Cur).status = status

(***************************************************************************)
(* C14.  handleReset, in any state, leaves status PLAYING, moves 0, time 0 *)
(* and a freshly shuffled board of size*size slots, with size and image    *)
(* as they were, and one live timer; and the session it starts is TIME_UP  *)
(* only after size*size*10 further ticks: the render of the updates that   *)
(* waited at the restart leaves it PLAYING with time 0, and so does, with  *)
(* time 1, the render that follows the first interval callback.            *)
(***************************************************************************)
C14_RestartFresh ==
    \A newBoard \in ShuffleOutcomes[size] :
       LET r == Reset(Cur, newBoard)
       IN /\ r.status = PLAYING
          /\ r.moves = 0
          /\ r.time = 0
          /\ r.board = newBoard
          /\ Len(r.board) = size * size
          /\ r.size = size
          /\ r.imageSrc = imageSrc
          /\ r.timers = 1
          /\ Render(r).status = PLAYING
          /\ Render(r).time = 0
          /\ Render(Tick(r)).status = PLAYING

(***************************************************************************)
(* C15.  For every array of length n, isSolved returns true iff the array  *)
(* is [1, 2, ..., n-1, empty]: slot i holds i+1 for every i in 0..n-2 and  *)
(* the last slot holds the empty marker (an array without a last slot is   *)
(* not solved).                                                            *)
(***************************************************************************)
C15_IsSolvedIffGoal ==
    walk.pc = "isSolved" =>
       LET b == walk.currentBoard
           n == Len(walk.currentBoard)
       IN walk.result <=>
             /\ n >= 1
             /\ b = [k \in 1..n |-> IF k < n THEN k ELSE Null]

\* isSolved has returned true for an array of four slots.
C15_Witness ==
    /\ walk.pc = "isSolved"
    /\ Len(walk.currentBoard) = 4
    /\ walk.result = TRUE

(***************************************************************************)
(* C16.  While PLAYING, for sizes 3, 4, 5 and every slot t of the board, a *)
(* click on t is accepted iff t is a horizontal or vertical neighbour of   *)
(* the empty slot in the row-major grid (not diagonal, not the empty slot  *)
(* itself, no wrap from the end of a row to the start of the next); an     *)
(* accepted click exchanges the contents of t and the empty slot and       *)
(* leaves every other slot as it was.                                      *)
(***************************************************************************)
C16_AcceptedIffNeighbour ==
    status = PLAYING =>
       \A t \in 0..(size * size - 1) :
          LET e == IndexOfNull(board)
              r == TileClick(Cur, t)
          IN /\ (r.moves = moves + 1) <=> (e # -1 /\ Neighbours(size, e, t))
             /\ r.moves # moves + 1 => r = Cur
             /\ r.moves = moves + 1 => Exchanged(board, r.board, t, e)

\* A size-5 game after a move, its empty slot at the end of a row that is
\* not the last: the slot after it is one index away and not a neighbour.
C16_Witness ==
    /\ status = PLAYING
    /\ size = 5
    /\ moves = 1
    /\ IndexOfNull(board) % 5 = 4
    /\ IndexOfNull(board) + 1 < 25
    /\ TileClick(Cur, IndexOfNull(board) + 1) = Cur
    /\ TileClick(Cur, IndexOfNull(board) - 1) # Cur

(***************************************************************************)
(* C17.  In every state, status SOLVED implies that the board is the       *)
(* solved layout of the current size: it does in the state, and in the     *)
(* state that a click, on any index, and the render of the updates that    *)
(* wait after it lead to.                                                  *)
(***************************************************************************)
C17_SolvedMeansSolvedBoard ==
    /\ status = SOLVED => board = Goal(size)
    /\ \A t \in ClickIndices(size) :
          LET r == Render(TileClick(Cur, t))
          IN r.status = SOLVED => r.board = Goal(size)

(***************************************************************************)
(* C18.  With the interval callback kept running while its timer is live   *)
(* and the tasks React has scheduled kept running, every game that is      *)
(* PLAYING eventually is not (SOLVED, TIME_UP or SELECTING) unless         *)
(* handleReset is taken again and again without end, and a game left to    *)
(* itself is TIME_UP within size*size*10 ticks: while PLAYING time is      *)
(* below the limit and a step that brings the end nearer can be taken      *)
(* without the user (the interval callback, the render of the updates      *)
(* that wait, or the effects that wait), so that a game cannot stay        *)
(* PLAYING for ever with nothing left to run.                              *)
(***************************************************************************)
C18_PlayingEnds ==
    status = PLAYING =>
       /\ time < size * size * 10
       /\ \/ ENABLED timerTick
          \/ ENABLED renderUpdates
          \/ ENABLED flushEffects

(***************************************************************************)
(* C19.  The walk makes size*size*10 exchanges, an even number, each of    *)
(* which moves the empty slot to a grid neighbour; so the empty slot of a  *)
(* board shuffleBoard returns is at even Manhattan distance from the last  *)
(* slot: it is never a direct neighbour of the bottom-right corner and no  *)
(* single move solves the board.                                           *)
(***************************************************************************)
C19_BlankAtEvenDistance ==
    /\ walk.pc = "loop" =>
          (walk.i + Abs((walk.blankIndex % walk.s) - (walk.s - 1))
                  + Abs((walk.blankIndex \div walk.s) - (walk.s - 1))) % 2 = 0
    /\ walk.pc = "done" =>
          /\ (walk.s * walk.s * 10) % 2 = 0
          /\ walk.i = walk.s * walk.s * 10
          /\ At(walk.newBoard, walk.blankIndex) = Null
          /\ (Abs((walk.blankIndex % walk.s) - (walk.s - 1))
              + Abs((walk.blankIndex \div walk.s) - (walk.s - 1))) % 2 = 0
          /\ ~Neighbours(walk.s, walk.s * walk.s - 1, walk.blankIndex)
          /\ \A t \in 0..(walk.s * walk.s - 1) :
                applyMove(walk.s, walk.newBoard, t) # Goal(walk.s)

\* A size-4 shuffle has returned a board whose empty slot is not the last
\* slot: it is two or more slides away from it.
C19_Witness ==
    /\ walk.pc = "done"
    /\ walk.s = 4
    /\ walk.blankIndex # 15
    /\ At(walk.newBoard, walk.blankIndex) = Null

====
